---- MODULE Spec2Model ----
(***************************************************************************)
(* Model of mutex_guard.h: Mutex<T> (a std::mutex together with the value  *)
(* it protects) and MutexGuard<T> (the move-only smart pointer returned by *)
(* Mutex<T>::lock and Mutex<T>::try_lock), with T = int as in example.cpp. *)
(*                                                                         *)
(* A pointer is modelled by the index of the Mutex<T> object it points     *)
(* into: a T* with value m is &mutexes[m].value, a std::mutex* with value  *)
(* m is &mutexes[m].mutex, and NULL is nullptr.                            *)
(***************************************************************************)
EXTENDS Integers, FiniteSets, Sequences, TLC

\* ---------------------------------------------------------------- bounds
NumThreads == 2      \* threads sharing the Mutex<int> objects
MaxGuards == 3       \* MutexGuard<int> objects constructed in one run
MaxIncr == 2         \* (*guard)++ statements executed in one run
MaxInit == 1         \* initial values are drawn from 0..MaxInit

Threads == 1..NumThreads
\* the Mutex<int> objects: the one shared object, `mutex` of main()
Mutexes == {1}
GuardIds == 1..MaxGuards

\* nullptr
NULL == 0

\* ------------------------------------------------------------ std::mutex
\* The primitive the header composes.  Its state is one boolean: locked.
\* try_lock on a mutex that is locked fails whichever thread holds it (the
\* result of pthread_mutex_trylock on a normal mutex), lock on it waits.
std_try_lock_steals(locked) == TRUE

std_try_lock(locked) == ~locked

std_lock_never_waits(locked) == TRUE

std_lock_enabled(locked) == ~locked

std_unlock(locked) == FALSE

\* mutex.lock() by the thread that owns the std::mutex is undefined
\* ([thread.mutex.requirements.mutex]).  The builds either wait for ever, as
\* for a std::mutex owned by another thread, or detect it and throw
\* std::system_error; no caller of lock() catches it and the process stops.
RelockOutcomes == {"waits", "throws"}

\* ------------------------------------------------------- MutexGuard<T>
\* MutexGuard(T *value, std::mutex *mutex) : value(value), mutex(mutex) {}
MutexGuardNoValue(value, mutex) == [value |-> NULL, mutex |-> mutex]

MutexGuard(value, mutex) == [value |-> value, mutex |-> mutex]

\* ~MutexGuard(): the condition under which mutex->unlock() is called
DtorNever(guard) == FALSE

DtorOnValue(guard) == guard.value # NULL

DtorUnlocks(guard) == guard.mutex # NULL

\* operator bool
OperatorBoolOnValue(guard) == guard.value # NULL

OperatorBool(guard) == guard.mutex # NULL

\* operator* : the object the returned reference designates
OperatorStar(guard) == guard.value

\* MutexGuard(MutexGuard &&guard): G is the store of guard objects, this
\* the object under construction, guard the argument.
MoveCtorNoReset(G, this, guard) ==
    [G EXCEPT ![this] = [value |-> G[guard].value, mutex |-> G[guard].mutex]]

MoveCtor(G, this, guard) ==
    LET G1 == [G EXCEPT ![this] = [value |-> G[guard].value,
                                   mutex |-> G[guard].mutex]]
    IN  [G1 EXCEPT ![guard].mutex = NULL]

\* operator=(MutexGuard &&guard): the three assignments in program order on
\* the store, so that this and guard may be the same object.
MoveAssignNoReset(G, this, guard) ==
    [G EXCEPT ![this] = [value |-> G[guard].value, mutex |-> G[guard].mutex]]

MoveAssignSwap(G, this, guard) ==
    [G EXCEPT ![this] = G[guard], ![guard] = G[this]]

MoveAssign(G, this, guard) ==
    LET G1 == [G EXCEPT ![this].value = G[guard].value]
        G2 == [G1 EXCEPT ![this].mutex = G1[guard].mutex]
    IN  [G2 EXCEPT ![guard].mutex = NULL]

\* operator= has no return statement: flowing off the end of a function
\* that returns MutexGuard& is undefined.  The builds either return to the
\* caller (which discards the result) or stop the process at that point.
MoveAssignOutcomes == {"returns", "traps"}

\* ------------------------------------------------------------- Mutex<T>
\* explicit Mutex(T value) : value(value) {}   (the std::mutex is unlocked)
MutexCtorZero(v) == [mutex |-> FALSE, value |-> 0]

MutexCtor(v) == [mutex |-> FALSE, value |-> v]

\* try_lock(): the guard returned, given the result of mutex.try_lock()
try_lock_always(m, ok) == MutexGuard(m, m)

try_lock_half(m, ok) == IF ok THEN MutexGuard(m, m) ELSE MutexGuard(m, NULL)

try_lock(m, ok) == IF ok THEN MutexGuard(m, m) ELSE MutexGuard(NULL, NULL)

\* lock(): the guard returned once mutex.lock() has returned
lock_invalid(m) == MutexGuard(NULL, NULL)

lock(m) == MutexGuard(m, m)

\* unwrap(Mutex<T>&& self): std::move(self.value) of an int is its value
unwrap(self) == self.value

\* Mutex(Mutex &&) noexcept = default; and operator=(Mutex &&) noexcept =
\* default; move member by member: the std::mutex, then the value.  A
\* std::mutex has a deleted copy constructor and copy assignment and no move
\* operation, so both defaulted functions are defined as deleted: a program
\* that moves a Mutex<T> is rejected and no Mutex<T> is ever made from
\* another one.
StdMutexMovable == FALSE

NoMutex == [made |-> FALSE, mutex |-> FALSE, value |-> 0]

MutexMove(self) ==
    IF StdMutexMovable
    THEN [made |-> TRUE, mutex |-> self.mutex, value |-> self.value]
    ELSE NoMutex

\* ---------------------------------------------------------------- state
VARIABLES
    holder,     \* [Mutexes -> Threads \cup {0}]  the thread that owns the std::mutex
    started,    \* 0..NumThreads  threads 1..started have made their first call
    mutexes,    \* [Mutexes -> [mutex: BOOLEAN, value: Int]]  the Mutex<int> objects
    guards,     \* [GuardIds -> [value, mutex]]  the MutexGuard<int> objects
    life,       \* [GuardIds -> {"none","live","dead"}]  object lifetime
    owner,      \* [GuardIds -> Threads \cup {0}]  thread whose scope holds it
    pc,         \* [Threads -> [at, m, g, tmp]]  where each thread is; tmp is
                \* the value read by (*guard)++, and inside lock() 1 when the
                \* std::mutex was locked at the call
    aborted,    \* the process was stopped by the undefined operator=
    \* history variables
    init,       \* [Mutexes -> Int]  the value each Mutex was constructed with
    origin,     \* [GuardIds -> GuardIds \cup {0}]  acquisition whose lock it holds
    chain,      \* [GuardIds -> SUBSET GuardIds]  acquisitions a live guard has held
    unlocks,    \* [GuardIds -> Nat]  unlock() calls made so far for acquisition a
    completed,  \* [Mutexes -> Nat]  (*guard)++ statements completed on m
    released,   \* [Mutexes -> Threads \cup {0}]  who unlocked m, none acquired since
    last        \* the operation that produced this state

vars == <<started, holder, mutexes, guards, life, owner, pc, aborted, init,
          origin, chain, unlocks, completed, released, last>>

Idle == [at |-> "idle", m |-> 0, g |-> 0, tmp |-> 0]

\* The record of an operation: m the Mutex, g the guard that lock() or
\* try_lock() returned, pre operator bool of the guard (the source of a
\* move, the guard destroyed) or the state of the std::mutex before the
\* call, flag operator bool of the guard returned or moved into, or whether
\* the destructor called unlock(), to the mutex pointer of the guard moved
\* into and srcv operator bool of the source after the move, dstv and dstm
\* operator bool and the mutex pointer of the guard assigned to before the
\* assignment, ret the value
\* returned by unwrap, rel the thread that had released m, hk whether the
\* guard destroyed was one that a lock had been moved out of (value set,
\* mutex null), l2 the Mutex made by a move of m, and
\* once / lost / multi the acquisitions whose last guard this destruction
\* ended, with one, no and several unlock() calls made for them.
NoOp == [op |-> "init", m |-> 0, g |-> 0, pre |-> FALSE, flag |-> FALSE,
         to |-> 0, srcv |-> FALSE, dstv |-> FALSE, dstm |-> 0, ret |-> 0, rel |-> 0, hk |-> FALSE,
         l2 |-> NoMutex, once |-> {}, lost |-> {}, multi |-> {}]

Op(op, m, g, pre, flag) ==
    [NoOp EXCEPT !.op = op, !.m = m, !.g = g, !.pre = pre, !.flag = flag]

Init ==
    /\ started = 0
    /\ holder = [m \in Mutexes |-> 0]
    /\ init \in [Mutexes -> 0..MaxInit]
    /\ mutexes = [m \in Mutexes |-> MutexCtor(init[m])]
    /\ guards = [g \in GuardIds |-> MutexGuard(NULL, NULL)]
    /\ life = [g \in GuardIds |-> "none"]
    /\ owner = [g \in GuardIds |-> 0]
    /\ pc = [t \in Threads |-> Idle]
    /\ aborted = FALSE
    /\ origin = [g \in GuardIds |-> 0]
    /\ chain = [g \in GuardIds |-> {}]
    /\ unlocks = [g \in GuardIds |-> 0]
    /\ completed = [m \in Mutexes |-> 0]
    /\ released = [m \in Mutexes |-> 0]
    /\ last = NoOp

\* ---------------------------------------------------------------- helpers
Constructed == {g \in GuardIds : life[g] # "none"}

Live == {g \in GuardIds : life[g] = "live"}

Waiting == {t \in Threads : pc[t].at = "lock"}

\* a guard object can still be constructed (one is kept for each thread
\* that is inside lock())
CanConstruct == Cardinality(Constructed) + Cardinality(Waiting) < MaxGuards

NewGuard == Cardinality(Constructed) + 1

TotalIncr == LET RECURSIVE Sum(_)
                 Sum(S) == IF S = {} THEN 0
                           ELSE LET m == CHOOSE x \in S : TRUE
                                IN  completed[m] + Sum(S \ {m})
             IN  Sum(Mutexes)

Running(t) == ~aborted /\ pc[t].at = "idle"

Mine(t) == {g \in Live : owner[g] = t}

\* The threads run the same code and are told apart only by their number:
\* they are numbered in the order in which they first call lock() or
\* try_lock(), so thread t makes its first call after threads 1..t-1 did.
FirstCall(t) == t <= started + 1

\* ---------------------------------------------------------------- actions
\* Mutex<T>::lock(), first half: the thread enters mutex.lock()
LockCall(t, m) ==
    /\ Running(t)
    /\ FirstCall(t)
    /\ started' = IF t > started THEN t ELSE started
    /\ CanConstruct
    /\ pc' = [pc EXCEPT ![t] = [at |-> "lock", m |-> m, g |-> 0,
                                tmp |-> IF mutexes[m].mutex THEN 1 ELSE 0]]
    /\ last' = Op("lock_call", m, 0, mutexes[m].mutex, FALSE)
    /\ UNCHANGED <<mutexes, guards, life, owner, aborted, init, holder, origin, chain,
                   unlocks, completed, released>>

\* Mutex<T>::lock(), second half: mutex.lock() returns with the mutex held
\* and the guard is constructed in the caller's scope
LockReturn(t) ==
    LET m == pc[t].m
        g == NewGuard
    IN  /\ ~aborted
        /\ pc[t].at = "lock"
        /\ std_lock_enabled(mutexes[m].mutex)
        /\ mutexes' = [mutexes EXCEPT ![m].mutex = TRUE]
        /\ guards' = [guards EXCEPT ![g] = lock(m)]
        /\ life' = [life EXCEPT ![g] = "live"]
        /\ owner' = [owner EXCEPT ![g] = t]
        /\ pc' = [pc EXCEPT ![t] = Idle]
        /\ origin' = [origin EXCEPT ![g] = IF guards'[g].mutex # NULL THEN g ELSE 0]
        /\ chain' = [chain EXCEPT ![g] = IF guards'[g].mutex # NULL THEN {g} ELSE {}]
        /\ released' = [released EXCEPT ![m] = 0]
        /\ holder' = [holder EXCEPT ![m] = t]
        /\ last' = Op("lock", m, g, pc[t].tmp = 1, OperatorBool(guards'[g]))
        /\ UNCHANGED <<aborted, init, started, unlocks, completed>>

\* Mutex<T>::lock() by the thread that owns the std::mutex, in a build where
\* mutex.lock() throws: the process stops inside lock()
LockThrows(t) ==
    /\ ~aborted
    /\ pc[t].at = "lock"
    /\ holder[pc[t].m] = t
    /\ "throws" \in RelockOutcomes
    /\ aborted' = TRUE
    /\ last' = Op("throw", 0, 0, FALSE, FALSE)
    /\ UNCHANGED <<mutexes, guards, life, owner, pc, init, holder, started, origin,
                   chain, unlocks, completed, released>>

\* Mutex<T>::try_lock()
TryLock(t, m) ==
    LET ok == std_try_lock(mutexes[m].mutex)
        g == NewGuard
    IN  /\ Running(t)
        /\ FirstCall(t)
        /\ started' = IF t > started THEN t ELSE started
        /\ CanConstruct
        /\ mutexes' = [mutexes EXCEPT ![m].mutex = IF ok THEN TRUE ELSE @]
        /\ guards' = [guards EXCEPT ![g] = try_lock(m, ok)]
        /\ life' = [life EXCEPT ![g] = "live"]
        /\ owner' = [owner EXCEPT ![g] = t]
        /\ origin' = [origin EXCEPT ![g] = IF guards'[g].mutex # NULL THEN g ELSE 0]
        /\ chain' = [chain EXCEPT ![g] = IF guards'[g].mutex # NULL THEN {g} ELSE {}]
        /\ released' = [released EXCEPT ![m] = IF ok THEN 0 ELSE @]
        /\ holder' = [holder EXCEPT ![m] = IF ok THEN t ELSE @]
        /\ last' = [Op("try_lock", m, g, mutexes[m].mutex,
                       OperatorBool(guards'[g]))
                    EXCEPT !.rel = released[m]]
        /\ UNCHANGED <<pc, aborted, init, unlocks, completed>>

\* MutexGuard<T> b(std::move(a));
MoveConstruct(t, src) ==
    LET g == NewGuard
    IN  /\ Running(t)
        /\ CanConstruct
        /\ src \in Mine(t)
        /\ guards' = MoveCtor(guards, g, src)
        /\ life' = [life EXCEPT ![g] = "live"]
        /\ owner' = [owner EXCEPT ![g] = t]
        /\ origin' = [x \in GuardIds |->
                        IF guards'[x].mutex = NULL THEN 0
                        ELSE IF x = g THEN origin[src] ELSE origin[x]]
        /\ chain' = [chain EXCEPT ![g] = {origin[src]} \ {0}]
        /\ last' = [Op("move_construct", guards[src].mutex, 0,
                       OperatorBool(guards[src]), OperatorBool(guards'[g]))
                    EXCEPT !.to = guards'[g].mutex,
                           !.srcv = OperatorBool(guards'[src])]
        /\ UNCHANGED <<mutexes, pc, aborted, init, holder, started, unlocks, completed, released>>

\* b = std::move(a);   (dst and src may name the same object), in a build
\* where the undefined end of operator= returns to the caller
MoveAssignment(t, dst, src) ==
    /\ Running(t)
    /\ dst \in Mine(t)
    /\ src \in Mine(t)
    /\ "returns" \in MoveAssignOutcomes
    /\ guards' = MoveAssign(guards, dst, src)
    /\ origin' = [x \in GuardIds |->
                    IF guards'[x].mutex = NULL THEN 0
                    ELSE IF x = dst THEN origin[src] ELSE origin[x]]
    /\ chain' = [chain EXCEPT ![dst] = @ \cup ({origin[src]} \ {0})]
    /\ last' = [Op("move_assign", guards[src].mutex, 0,
                   OperatorBool(guards[src]), OperatorBool(guards'[dst]))
                EXCEPT !.to = guards'[dst].mutex,
                       !.srcv = OperatorBool(guards'[src]),
                       !.dstv = OperatorBool(guards[dst]),
                       !.dstm = guards[dst].mutex]
    /\ UNCHANGED <<mutexes, life, owner, pc, aborted, init, holder, started, unlocks, completed,
                   released>>

\* b = std::move(a); in a build where the undefined end of operator= stops
\* the process: whichever thread and guards made the call, no object is
\* looked at again and nothing runs any more.
MoveAssignmentTraps ==
    /\ \E t \in Threads : Running(t) /\ Mine(t) # {}
    /\ "traps" \in MoveAssignOutcomes
    /\ aborted' = TRUE
    /\ last' = Op("trap", 0, 0, FALSE, FALSE)
    /\ UNCHANGED <<mutexes, guards, life, owner, pc, init, holder, started, origin, chain,
                   unlocks, completed, released>>

\* end of the scope of a guard: ~MutexGuard()
Destroy(t, g) ==
    LET m == guards[g].mutex
        closes == {a \in chain[g] : \A x \in Live \ {g} : a \notin chain[x]}
        unl == IF DtorUnlocks(guards[g]) /\ origin[g] # 0
               THEN [unlocks EXCEPT ![origin[g]] = @ + 1] ELSE unlocks
    IN  /\ Running(t)
        /\ g \in Mine(t)
        /\ life' = [life EXCEPT ![g] = "dead"]
        \* the object is gone: its storage and its place in the scope hold nothing
        /\ guards' = [guards EXCEPT ![g] = MutexGuard(NULL, NULL)]
        /\ owner' = [owner EXCEPT ![g] = 0]
        /\ origin' = [origin EXCEPT ![g] = 0]
        /\ chain' = [chain EXCEPT ![g] = {}]
        /\ IF DtorUnlocks(guards[g])
           THEN /\ mutexes' = [mutexes EXCEPT ![m].mutex = std_unlock(@)]
                /\ released' = [released EXCEPT ![m] = t]
                /\ holder' = [holder EXCEPT ![m] = 0]
           ELSE UNCHANGED <<mutexes, released, holder>>
        /\ unlocks' = [a \in GuardIds |-> IF a \in closes THEN 0 ELSE unl[a]]
        /\ last' = [Op("destroy", m, 0, OperatorBool(guards[g]),
                       DtorUnlocks(guards[g]))
                    EXCEPT !.hk = (guards[g].value # NULL /\ guards[g].mutex = NULL),
                           !.once = {a \in closes : unl[a] = 1},
                           !.lost = {a \in closes : unl[a] = 0},
                           !.multi = {a \in closes : unl[a] > 1}]
        /\ UNCHANGED <<pc, aborted, init, started, completed>>

\* (*guard)++ after the bool check of example.cpp: the read of the value
IncrRead(t, g) ==
    /\ Running(t)
    /\ g \in Mine(t)
    /\ OperatorBool(guards[g])
    /\ TotalIncr + Cardinality({u \in Threads : pc[u].at = "incr"}) < MaxIncr
    /\ pc' = [pc EXCEPT ![t] = [at |-> "incr", m |-> OperatorStar(guards[g]),
                                g |-> g, tmp |-> mutexes[OperatorStar(guards[g])].value]]
    /\ last' = Op("read", 0, 0, FALSE, FALSE)
    /\ UNCHANGED <<mutexes, guards, life, owner, aborted, init, holder, started, origin, chain,
                   unlocks, completed, released>>

\* (*guard)++ : the write of the incremented value
IncrWrite(t) ==
    LET m == pc[t].m
    IN  /\ ~aborted
        /\ pc[t].at = "incr"
        /\ mutexes' = [mutexes EXCEPT ![m].value = pc[t].tmp + 1]
        /\ completed' = [completed EXCEPT ![m] = @ + 1]
        /\ pc' = [pc EXCEPT ![t] = Idle]
        /\ last' = Op("write", m, 0, FALSE, FALSE)
        /\ UNCHANGED <<guards, life, owner, aborted, init, holder, started, origin, chain,
                       unlocks, released>>

\* Mutex<T>::unwrap(std::move(mutex)).  The caller gives the Mutex away: it
\* holds no guard taken from it and no other thread is inside a call or a
\* (*guard)++ on it (unwrap reads the value without taking the lock).
Unwrap(m) ==
    /\ ~aborted
    /\ \A t \in Threads : pc[t].at = "idle"
    /\ Live = {}
    /\ last' = [Op("unwrap", m, 0, mutexes[m].mutex, FALSE)
                EXCEPT !.ret = unwrap(mutexes[m])]
    /\ UNCHANGED <<mutexes, guards, life, owner, pc, aborted, init, holder, started, origin,
                   chain, unlocks, completed, released>>

\* Mutex<int> l2(std::move(mutex)); or l2 = std::move(mutex); by a caller
\* that, as for unwrap, holds no guard of it while no thread is inside a
\* call on it
MoveMutex(m) ==
    /\ ~aborted
    /\ \A t \in Threads : pc[t].at = "idle"
    /\ Live = {}
    /\ last' = [Op("mutex_move", m, 0, mutexes[m].mutex, MutexMove(mutexes[m]).made)
                EXCEPT !.l2 = MutexMove(mutexes[m])]
    /\ UNCHANGED <<mutexes, guards, life, owner, pc, aborted, init, holder, started, origin,
                   chain, unlocks, completed, released>>

Next ==
    \/ \E t \in Threads, m \in Mutexes : LockCall(t, m)
    \/ \E t \in Threads : LockReturn(t)
    \/ \E t \in Threads : LockThrows(t)
    \/ \E t \in Threads, m \in Mutexes : TryLock(t, m)
    \/ \E t \in Threads, src \in GuardIds : MoveConstruct(t, src)
    \/ \E t \in Threads, dst \in GuardIds, src \in GuardIds :
          MoveAssignment(t, dst, src)
    \/ MoveAssignmentTraps
    \/ \E t \in Threads, g \in GuardIds : Destroy(t, g)
    \/ \E t \in Threads, g \in GuardIds : IncrRead(t, g)
    \/ \E t \in Threads : IncrWrite(t)
    \/ \E m \in Mutexes : Unwrap(m)
    \/ \E m \in Mutexes : MoveMutex(m)

Spec == Init /\ [][Next]_vars

\* A thread inside mutex.lock() is woken up and takes the std::mutex if it
\* stays unlocked: weak fairness of the return of lock() for each thread.
\* Nothing obliges a thread to make a call or to end the scope of a guard.
FairSpec == Spec /\ \A t \in Threads : WF_vars(LockReturn(t))

Moves == {"move_construct", "move_assign"}

\* the std::mutex of m is locked and no live guard points to it
Leaked(m) == mutexes[m].mutex /\ \A g \in Live : guards[g].mutex # m

Acquisitions == {"lock", "try_lock"}

\* ------------------------------------------------------------------ C1
\* C1: mutual exclusion.  In every reachable state at most one live guard
\* taken from a Mutex has a non-null mutex pointer to it.
C1_MutualExclusion ==
    \A m \in Mutexes : Cardinality({g \in Live : guards[g].mutex = m}) <= 1

\* a thread holds the lock while another thread's try_lock has just failed
C1_Witness ==
    /\ last.op = "try_lock"
    /\ ~OperatorBool(guards[last.g])
    /\ \E h \in Live : /\ guards[h].mutex = last.m
                       /\ owner[h] # owner[last.g]

\* ------------------------------------------------------------------ C2
\* C2: when the last guard of the chain of moves of a successful
\* acquisition is destroyed, unlock() has been called exactly once for that
\* acquisition: never zero times (lost) and never several times (multi).
C2_ExactlyOnce ==
    last.op = "destroy" => (last.lost = {} /\ last.multi = {})

\* ------------------------------------------------------------------ C3
\* C3: try_lock on a Mutex whose std::mutex is locked returns at once a
\* guard with both pointers null and operator bool false, and changes
\* neither the std::mutex, nor the value, nor any other guard.
C3_FailedTryLock ==
    [][(last'.op = "try_lock" /\ mutexes[last'.m].mutex) =>
          /\ guards'[last'.g] = [value |-> NULL, mutex |-> NULL]
          /\ ~OperatorBool(guards'[last'.g])
          /\ life'[last'.g] = "live"
          /\ mutexes' = mutexes
          /\ mutexes'[last'.m].mutex
          /\ pc' = pc
          /\ \A x \in GuardIds \ {last'.g} :
                guards'[x] = guards[x] /\ life'[x] = life[x] /\ owner'[x] = owner[x]
      ]_vars

\* a try_lock has failed while a guard of the same thread holds the lock
C3_Witness ==
    /\ last.op = "try_lock"
    /\ last.pre
    /\ guards[last.g] = [value |-> NULL, mutex |-> NULL]
    /\ \E h \in Live : /\ guards[h].mutex = last.m
                       /\ owner[h] = owner[last.g]

\* ------------------------------------------------------------------ C4
\* C4: the guard returned by lock() is valid: operator bool is true, the
\* std::mutex is locked and the guard points to the value and the std::mutex
\* of the Mutex it was taken from.
C4_LockReturnsValid ==
    last.op = "lock" =>
        /\ OperatorBool(guards[last.g])
        /\ life[last.g] = "live"
        /\ mutexes[last.m].mutex
        /\ OperatorStar(guards[last.g]) = last.m
        /\ guards[last.g].mutex = last.m

\* lock() has returned after an earlier holder released the mutex
C4_Witness ==
    /\ last.op = "lock"
    /\ OperatorBool(guards[last.g])
    /\ \E h \in GuardIds : life[h] = "dead"

\* ------------------------------------------------------------------ C5
\* C5: the destruction of a valid guard leaves the std::mutex unlocked, it
\* stays unlocked until the next acquisition, and a try_lock made before
\* any other acquisition returns a valid guard.
C5_ReleaseThenTryLock ==
    /\ (last.op = "destroy" /\ last.pre) =>
            (~mutexes[last.m].mutex /\ released[last.m] # 0)
    /\ \A m \in Mutexes : released[m] # 0 => ~mutexes[m].mutex
    /\ (last.op = "try_lock" /\ last.rel # 0) =>
            /\ OperatorBool(guards[last.g])
            /\ guards[last.g] = [value |-> last.m, mutex |-> last.m]
            /\ mutexes[last.m].mutex

\* T1 released; T2, whose guard from an earlier failed try_lock is still in
\* scope, has made a try_lock that succeeded
C5_Witness ==
    /\ last.op = "try_lock"
    /\ last.rel # 0
    /\ last.rel # owner[last.g]
    /\ OperatorBool(guards[last.g])
    /\ \E h \in Live : /\ h # last.g
                       /\ owner[h] = owner[last.g]
                       /\ guards[h] = [value |-> NULL, mutex |-> NULL]

\* ------------------------------------------------------------------ C6
\* C6: after a valid guard A has been moved into B, by the move constructor
\* or by operator= and whatever B is, operator bool of B is true and B holds
\* the std::mutex A held; the destruction of the valid B then leaves the
\* std::mutex unlocked.
C6_MoveKeepsLock ==
    /\ (last.op \in Moves /\ last.pre) =>
            /\ last.flag
            /\ last.to = last.m
            /\ mutexes[last.m].mutex
    /\ (last.op = "destroy" /\ last.pre) => ~mutexes[last.m].mutex

\* ------------------------------------------------------------------ C7
\* C7: a guard that has just been the source of a move has operator bool
\* false; the destruction of a guard whose operator bool is false calls no
\* unlock(); and no acquisition is ever unlocked more than once.
C7_MovedFromNeverUnlocks ==
    [][/\ last'.op \in Moves => ~last'.srcv
       /\ (last'.op = "destroy" /\ ~last'.pre) =>
              /\ ~last'.flag
              /\ mutexes' = mutexes
              /\ \A a \in GuardIds : unlocks'[a] <= unlocks[a]
       /\ \A a \in GuardIds : unlocks'[a] <= 1
       /\ last'.multi = {}
      ]_vars

\* the guard a lock had been moved out of was destroyed without an unlock(),
\* while the guard it was moved into still holds the lock
C7_Witness ==
    /\ last.op = "destroy"
    /\ last.hk
    /\ ~last.flag
    /\ \E m \in Mutexes : mutexes[m].mutex /\ \E h \in Live : guards[h].mutex = m

\* ------------------------------------------------------------------ C8
\* C8 as stated: the value pointer and the mutex pointer of every guard are
\* both null or both non-null.
C8_BothOrNeither ==
    \A g \in Live : (guards[g].value = NULL) <=> (guards[g].mutex = NULL)

\* C8 as amended: a guard whose mutex pointer is non-null has a non-null
\* value pointer, into the same Mutex; a guard as returned by lock() or
\* try_lock() has both pointers null or both non-null.  (A moved-from guard
\* keeps its value pointer with a null mutex pointer.)
C8_MutexImpliesValue ==
    /\ \A g \in Live : guards[g].mutex # NULL => guards[g].value = guards[g].mutex
    /\ last.op \in Acquisitions =>
            ((guards[last.g].value = NULL) <=> (guards[last.g].mutex = NULL))

\* a moved-from guard, value pointer set and mutex pointer null, next to the
\* valid guard it was moved into
C8_Witness ==
    /\ last.op \in Moves
    /\ last.flag
    /\ \E g \in Live : guards[g].value # NULL /\ guards[g].mutex = NULL
    /\ \E h \in Live : guards[h].mutex # NULL

\* ------------------------------------------------------------------ C9
\* C9: unwrap on a Mutex constructed with V returns V when no (*guard)++ has
\* written in between; and only the write of (*guard)++ changes the value:
\* lock, try_lock, operator bool, the moves and the destructor leave it.
C9_RoundTrip ==
    [][/\ (last'.op = "unwrap" /\ completed'[last'.m] = 0) =>
              last'.ret = init'[last'.m]
       /\ \A m \in Mutexes :
              mutexes'[m].value # mutexes[m].value => last'.op = "write"
      ]_vars

\* unwrap has returned the non-zero initial value after guards were taken,
\* moved and destroyed
C9_Witness ==
    /\ last.op = "unwrap"
    /\ completed[last.m] = 0
    /\ init[last.m] # 0
    /\ last.ret = init[last.m]
    /\ Cardinality({g \in GuardIds : life[g] = "dead"}) >= 2

\* ----------------------------------------------------------------- C10
\* C10: the (*guard)++ statements on one Mutex never overlap, each is made
\* through a live valid guard, the value is the initial value plus the
\* number of completed statements, and unwrap returns that sum.
C10_NoLostUpdate ==
    /\ \A m \in Mutexes :
          /\ Cardinality({t \in Threads : pc[t].at = "incr" /\ pc[t].m = m}) <= 1
          /\ mutexes[m].value = init[m] + completed[m]
    /\ \A t \in Threads : pc[t].at = "incr" =>
          /\ pc[t].g \in Live
          /\ owner[pc[t].g] = t
          /\ guards[pc[t].g].mutex = pc[t].m
    /\ last.op = "unwrap" => last.ret = init[last.m] + completed[last.m]

\* unwrap has returned the initial value plus two, after two completed
\* (*guard)++ statements made through two different acquisitions
C10_Witness ==
    /\ last.op = "unwrap"
    /\ completed[last.m] >= 2
    /\ last.ret = init[last.m] + completed[last.m]
    /\ Cardinality({g \in GuardIds : life[g] = "dead"}) >= 2

\* ----------------------------------------------------------------- C11
\* C11: the destructor of a guard calls unlock() exactly when operator bool
\* of the guard is true at that moment.  The destruction of a valid guard
\* leaves the std::mutex unlocked; the destruction of an invalid guard (such
\* as the one T2 got from a failed try_lock while T1 holds the lock) changes
\* neither the std::mutex nor any other guard, so that the holder's guard
\* stays valid and the std::mutex stays locked.
C11_UnlockIffValid ==
    [][last'.op = "destroy" =>
          /\ last'.flag <=> last'.pre
          /\ last'.pre => (mutexes[last'.m].mutex /\ ~mutexes'[last'.m].mutex)
          /\ ~last'.pre =>
                /\ mutexes' = mutexes
                /\ \A a \in GuardIds : unlocks'[a] <= unlocks[a]
                /\ \A h \in GuardIds : life'[h] = "live" =>
                      /\ guards'[h] = guards[h]
                      /\ OperatorBool(guards[h]) =>
                            (OperatorBool(guards'[h]) /\ mutexes'[guards'[h].mutex].mutex)
      ]_vars

\* both threads have made one call each and are back in their code; the
\* guard of one of them, null/null from a try_lock that failed, has just
\* been destroyed without an unlock(), and the guard of the other one is
\* still valid with the std::mutex locked
C11_Witness ==
    /\ last.op = "destroy"
    /\ ~last.pre /\ ~last.hk /\ ~last.flag
    /\ started = 2
    /\ \A t \in Threads : pc[t].at = "idle"
    /\ Cardinality(Constructed) = 2
    /\ \E h \in Live : /\ Live = {h}
                       /\ OperatorBool(guards[h])
                       /\ mutexes[guards[h].mutex].mutex

\* ----------------------------------------------------------------- C12
\* C12: a thread inside lock() stays there while the std::mutex is locked
\* and returns only from a state where it is unlocked, with a valid guard;
\* and, the return of lock() being weakly fair, a thread that waits while
\* the std::mutex is unlocked returns unless the std::mutex is locked again
\* first (or the process has been stopped): it waits for ever only if the
\* std::mutex never stays available to it.
C12_LockBlocksUntilUnlocked ==
    /\ [][/\ \A t \in Threads :
                (pc[t].at = "lock" /\ mutexes[pc[t].m].mutex) => pc'[t] = pc[t]
          /\ last'.op = "lock" =>
                /\ ~mutexes[last'.m].mutex
                /\ OperatorBool(guards'[last'.g])
                /\ mutexes'[last'.m].mutex
         ]_vars
    /\ \A t \in Threads :
          (~aborted /\ pc[t].at = "lock" /\ ~mutexes[pc[t].m].mutex)
             ~> (aborted \/ pc[t].at # "lock" \/ mutexes[pc[t].m].mutex)

\* lock() was called while the std::mutex was locked and has now returned a
\* valid guard, the guard of the earlier holder having been destroyed
C12_Witness ==
    /\ last.op = "lock"
    /\ last.pre
    /\ OperatorBool(guards[last.g])
    /\ mutexes[last.m].mutex
    /\ \E h \in GuardIds : life[h] = "dead"

\* ----------------------------------------------------------------- C13
\* C13: moving a Mutex L1 into L2, by the move constructor or by the move
\* assignment, makes an L2 that has the value and the state of the
\* std::mutex that L1 had, so that lock, try_lock, the end of guards and
\* unwrap on L2 give what they would have given on L1.
C13_MutexMoveTransfers ==
    last.op = "mutex_move" =>
        /\ last.l2.made
        /\ last.l2.value = mutexes[last.m].value
        /\ last.l2.mutex = mutexes[last.m].mutex

\* ----------------------------------------------------------------- C14
\* C14: for every guard that lock, try_lock, the move constructor and
\* operator= can produce, operator bool is true exactly when the value
\* pointer and the mutex pointer are both non-null; and when it is true,
\* operator* designates the value of the Mutex whose std::mutex the guard
\* holds, never a null pointer.
C14_BoolIffBothSet ==
    \A g \in Live :
        /\ OperatorBool(guards[g]) <=>
              (guards[g].value # NULL /\ guards[g].mutex # NULL)
        /\ OperatorBool(guards[g]) =>
              /\ OperatorStar(guards[g]) # NULL
              /\ OperatorStar(guards[g]) \in Mutexes
              /\ OperatorStar(guards[g]) = guards[g].mutex
              /\ mutexes[guards[g].mutex].mutex

\* after an operator= the three kinds of guard are live together: the valid
\* one that was assigned to, the one moved from (value set, mutex null) and
\* one from a failed try_lock (both null)
C14_Witness ==
    /\ last.op = "move_assign"
    /\ last.pre /\ last.flag
    /\ \E g \in Live : OperatorBool(guards[g]) /\ OperatorStar(guards[g]) = last.m
    /\ \E g \in Live : ~OperatorBool(guards[g]) /\ guards[g].value # NULL
    /\ \E g \in Live : guards[g] = MutexGuard(NULL, NULL)

C16_LockStateFrame ==
    [][/\ \A m \in Mutexes :
             /\ (~mutexes[m].mutex /\ mutexes'[m].mutex) =>
                   (last'.op \in Acquisitions /\ last'.m = m /\ last'.flag)
             /\ (mutexes[m].mutex /\ ~mutexes'[m].mutex) =>
                   (last'.op = "destroy" /\ last'.m = m /\ last'.pre)
       /\ (last'.op \in Acquisitions /\ last'.flag) =>
             (~mutexes[last'.m].mutex /\ mutexes'[last'.m].mutex)
       /\ (last'.op = "destroy" /\ last'.pre) =>
             (mutexes[last'.m].mutex /\ ~mutexes'[last'.m].mutex)
       /\ \/ last'.op \in Moves \cup {"read", "write", "unwrap"}
          \/ last'.op = "try_lock" /\ ~last'.flag
          \/ last'.op = "destroy" /\ ~last'.pre
          => \A m \in Mutexes : mutexes'[m].mutex = mutexes[m].mutex
       /\ last'.op = "unwrap" =>
             /\ last'.ret = mutexes[last'.m].value
             /\ last'.pre = mutexes[last'.m].mutex
             /\ mutexes' = mutexes
             /\ pc' = pc
      ]_vars

\* unwrap has returned the value, incremented once, of a Mutex whose
\* std::mutex is locked
C16_Witness ==
    /\ last.op = "unwrap"
    /\ last.pre
    /\ mutexes[last.m].mutex
    /\ completed[last.m] >= 1
    /\ last.ret = mutexes[last.m].value

\* ----------------------------------------------------------------- C17
\* C17: the lock is not re-entrant.  A thread that calls lock() on a Mutex
\* while a valid guard of its own scope holds that Mutex (no other thread
\* can end that guard) never returns from lock(): in every later step it is
\* still inside lock(), its guard is still live and valid, and the
\* std::mutex is still locked (in the builds that wait and in those where
\* the process stops inside lock()).
C17_NotReentrant ==
    [][\A t \in Threads : \A g \in GuardIds :
          (/\ pc[t].at = "lock"
           /\ life[g] = "live" /\ owner[g] = t
           /\ guards[g].mutex = pc[t].m) =>
              /\ pc'[t] = pc[t]
              /\ life'[g] = "live" /\ owner'[g] = t
              /\ guards'[g] = guards[g]
              /\ mutexes'[pc[t].m].mutex
              /\ ~(last'.op = "lock" /\ last'.m = pc[t].m)
      ]_vars

\* a thread is inside lock() on the Mutex that its own valid guard holds,
\* while the other thread goes on: its try_lock has just failed
C17_Witness ==
    /\ last.op = "try_lock"
    /\ ~last.flag
    /\ \E t \in Threads : \E g \in Live :
          /\ pc[t].at = "lock"
          /\ owner[g] = t
          /\ OperatorBool(guards[g])
          /\ guards[g].mutex = pc[t].m
          /\ owner[last.g] # t

\* ----------------------------------------------------------------- C18
\* C18: no leaked and no phantom lock.  In every state reached through
\* lock, try_lock, the moves and the destruction of guards, the std::mutex
\* of a Mutex is locked if and only if exactly one live guard has a
\* non-null mutex pointer to it; so the destructor calls unlock() only on a
\* std::mutex that is locked.
C18_LockedIffOneHolder ==
    /\ \A m \in Mutexes :
          mutexes[m].mutex <=>
              Cardinality({g \in Live : guards[g].mutex = m}) = 1
    /\ (last.op = "destroy" /\ last.flag) => ~mutexes[last.m].mutex
====
